---- MODULE Spec2Model ----
(***************************************************************************)
(* Model of flux2.py: the FLUX.2 [PRO] structured-prompt client.           *)
(*                                                                         *)
(* Strings are sequences of tokens (a token is one character, or one       *)
(* literal of the program text).  Four specifications share the module:    *)
(*   SpecDim   applies validate_dimensions to a drawn (width, height);     *)
(*   SpecHex   applies hex_to_color_name to a drawn string;                *)
(*   SpecPrompt applies build_prompt_from_structure to a drawn prompt;     *)
(*   Spec      is one run of main() against a nondeterministic server.     *)
(***************************************************************************)
EXTENDS Integers, Sequences, FiniteSets, TLC

VARIABLES
    vd_args,        \* validate_dimensions: the (width, height) passed in
    vd_ret,         \* validate_dimensions: <<>>, then <<returned tuple>>
    hex_arg,        \* hex_to_color_name: the argument string
    hex_ret,        \* hex_to_color_name: <<>>, then <<returned string>>
    bp_arg,         \* build_prompt_from_structure: the structured prompt
    bp_ret,         \* build_prompt_from_structure: <<>>, then <<returned string>>
    cfg,            \* module-level configuration + environment of the run
    pc,             \* position of main()
    width,          \* main: local width
    height,         \* main: local height
    final_prompt,   \* main: local final_prompt
    task_id,        \* main: local task_id
    attempt,        \* poll_for_result: loop variable
    result,         \* main: local result, <<r>> once poll_for_result returned
    image_url,      \* main: local image_url
    exit_status,    \* <<>> while running, <<code>> once the process ended
    stdout,         \* the "ERROR: ..." lines printed, in order
    submitted,      \* [payload, response] of each POST of a task, in order
    polled,         \* number of GETs sent to the result endpoint
    last_poll,      \* <<r>>: the latest response from the result endpoint
    downloaded,     \* [url, response] of each GET of the image, in order
    files           \* files written by the run, in order

vars == <<vd_args, vd_ret, hex_arg, hex_ret, bp_arg, bp_ret, cfg, pc, width, height,
          final_prompt, task_id, attempt, result, image_url, exit_status,
          stdout, submitted, polled, last_poll, downloaded, files>>

None == "None"

(***************************************************************************)
(* Program constants                                                       *)
(***************************************************************************)
MIN_DIMENSION == 64
MAX_MEGAPIXELS == 4000000
MAX_POLL_ATTEMPTS == 120

ASPECT_RATIO_PRESETS ==
    [k \in {"1:1", "1:1_hd", "1:1_max", "16:9", "16:9_4k", "9:16", "9:16_4k",
            "4:3", "3:4", "3:2", "2:3", "21:9", "9:21"} |->
        CASE k = "1:1"     -> <<1024, 1024>>
          [] k = "1:1_hd"  -> <<1536, 1536>>
          [] k = "1:1_max" -> <<2048, 2048>>
          [] k = "16:9"    -> <<1920, 1080>>
          [] k = "16:9_4k" -> <<2560, 1440>>
          [] k = "9:16"    -> <<1080, 1920>>
          [] k = "9:16_4k" -> <<1440, 2560>>
          [] k = "4:3"     -> <<1536, 1152>>
          [] k = "3:4"     -> <<1152, 1536>>
          [] k = "3:2"     -> <<1536, 1024>>
          [] k = "2:3"     -> <<1024, 1536>>
          [] k = "21:9"    -> <<2016, 864>>
          [] k = "9:21"    -> <<864, 2016>>]

(***************************************************************************)
(* Bounds of the model                                                     *)
(***************************************************************************)
DimNeg == 20        \* smallest drawn dimension is -DimNeg
DimSmall == 100     \* small dimensions are drawn from -DimNeg..DimSmall
DimWin == 10        \* half-width of the window around 2000 (2000^2 = 4MP)

(***************************************************************************)
(* Dimension validator                                                     *)
(***************************************************************************)

\* slips: the quotient is truncated; a tie always goes up
FloorQuotient16(value) == value \div 16
RoundHalfUp16(value) == (value + 8) \div 16

\* Python round() of the float x/16: exact for these integers, ties to even.
\* \div and % are floor division and non-negative remainder, as in Python.
RoundHalfEven16(value) ==
    LET q == value \div 16
        r == value % 16
    IN  IF r < 8 THEN q
        ELSE IF r > 8 THEN q + 1
        ELSE IF q % 2 = 0 THEN q ELSE q + 1

\* a slip: the quotient is rounded but never scaled back
round_unscaled(value) == RoundHalfEven16(value)

round_to_multiple_of_16(value) == RoundHalfEven16(value) * 16

Msg(kind, a, b) == [kind |-> kind, a |-> a, b |-> b]

\* slips: the two comparisons of validate_dimensions taken non-strictly
BelowOrAtMinimum(v) == v <= MIN_DIMENSION
ReachesMaxPixels(total_pixels) == total_pixels >= MAX_MEGAPIXELS

\* the tests of validate_dimensions
BelowMinimum(v) == v < MIN_DIMENSION
ExceedsMaxPixels(total_pixels) == total_pixels > MAX_MEGAPIXELS
NotMultipleOf16(v) == v % 16 # 0
ClampToMinimum(adjusted) ==
    IF adjusted < MIN_DIMENSION THEN MIN_DIMENSION ELSE adjusted

validate_dimensions(w, h) ==
    LET e1 == IF BelowMinimum(w)
              THEN <<Msg("WidthBelowMin", w, MIN_DIMENSION)>> ELSE <<>>
        e2 == IF BelowMinimum(h)
              THEN <<Msg("HeightBelowMin", h, MIN_DIMENSION)>> ELSE <<>>
        total_pixels == w * h
        e3 == IF ExceedsMaxPixels(total_pixels)
              THEN <<Msg("TotalPixelsExceeds", total_pixels, MAX_MEGAPIXELS)>>
              ELSE <<>>
        aw1 == IF NotMultipleOf16(w) THEN round_to_multiple_of_16(w) ELSE w
        w1 == IF NotMultipleOf16(w)
              THEN <<Msg("WidthAdjusted", w, aw1)>> ELSE <<>>
        ah1 == IF NotMultipleOf16(h) THEN round_to_multiple_of_16(h) ELSE h
        w2 == IF NotMultipleOf16(h)
              THEN <<Msg("HeightAdjusted", h, ah1)>> ELSE <<>>
        w3 == IF aw1 < MIN_DIMENSION
              THEN <<Msg("WidthSetToMin", MIN_DIMENSION, MIN_DIMENSION)>>
              ELSE <<>>
        w4 == IF ah1 < MIN_DIMENSION
              THEN <<Msg("HeightSetToMin", MIN_DIMENSION, MIN_DIMENSION)>>
              ELSE <<>>
    IN  [adjusted_width  |-> ClampToMinimum(aw1),
         adjusted_height |-> ClampToMinimum(ah1),
         errors          |-> e1 \o e2 \o e3,
         warnings        |-> w1 \o w2 \o w3 \o w4]

\* Drawn dimensions.  Small ones cover zero, negatives and the minimum;
\* the window covers the 4MP square; the presets and the documented examples
\* are included; each tall value is the largest partner of a small one that
\* still fits the pixel budget.
SmallDims == (0 - DimNeg) .. DimSmall
NearLimitDims == (2000 - DimWin) .. (2000 + DimWin)
PresetDims == UNION {{ASPECT_RATIO_PRESETS[k][1], ASPECT_RATIO_PRESETS[k][2]} :
                        k \in DOMAIN ASPECT_RATIO_PRESETS}
ExampleDims == {1081, 1088, 3000, 3990}
CoreDims == SmallDims \cup NearLimitDims \cup PresetDims \cup ExampleDims
TallDims == {MAX_MEGAPIXELS \div v : v \in MIN_DIMENSION .. DimSmall}
DimPairs == (CoreDims \X CoreDims) \cup (SmallDims \X TallDims)
                \cup (TallDims \X SmallDims)

(***************************************************************************)
(* Color namer                                                             *)
(***************************************************************************)
MaxHexLen == 7      \* longest drawn argument of hex_to_color_name

HexDigitValue ==
    [c \in {"0", "1", "2", "3", "4", "5", "6", "7", "8", "9",
            "a", "b", "c", "d", "e", "f", "A", "B", "C", "D", "E", "F"} |->
        CASE c = "0" -> 0 [] c = "1" -> 1 [] c = "2" -> 2 [] c = "3" -> 3
          [] c = "4" -> 4 [] c = "5" -> 5 [] c = "6" -> 6 [] c = "7" -> 7
          [] c = "8" -> 8 [] c = "9" -> 9
          [] c \in {"a", "A"} -> 10 [] c \in {"b", "B"} -> 11
          [] c \in {"c", "C"} -> 12 [] c \in {"d", "D"} -> 13
          [] c \in {"e", "E"} -> 14 [] c \in {"f", "F"} -> 15]

HexDigits == DOMAIN HexDigitValue
Whitespace == {" ", "\t", "\n"}

\* str.lstrip('#'): every leading '#' is removed.
RECURSIVE LStripHash(_)
LStripHash(s) ==
    IF s # <<>> /\ Head(s) = "#" THEN LStripHash(Tail(s)) ELSE s

\* The slice s[a:b] (0-based, end exclusive); never raises, clips to len(s).
Slice(s, a, b) ==
    LET hi == IF b < Len(s) THEN b ELSE Len(s)
    IN  IF a >= hi THEN <<>> ELSE SubSeq(s, a + 1, hi)

RECURSIVE StripSpace(_)
StripSpace(s) ==
    IF s = <<>> THEN s
    ELSE IF Head(s) \in Whitespace THEN StripSpace(Tail(s))
    ELSE IF s[Len(s)] \in Whitespace THEN StripSpace(SubSeq(s, 1, Len(s) - 1))
    ELSE s

RECURSIVE DigitsValue(_)
DigitsValue(s) ==
    IF s = <<>> THEN 0
    ELSE 16 * DigitsValue(SubSeq(s, 1, Len(s) - 1)) + HexDigitValue[s[Len(s)]]

\* int(s, 16) for the slices the namer takes (at most two characters, where
\* neither a "0x" prefix nor a digit-separating "_" can occur): surrounding
\* whitespace is dropped, one sign is accepted, the rest must be one or more
\* hex digits; anything else raises ValueError (ok = FALSE).
IntBase16(s) ==
    LET t == StripSpace(s)
        signed == t # <<>> /\ Head(t) \in {"+", "-"}
        body == IF signed THEN Tail(t) ELSE t
        ok == body # <<>> /\ \A i \in 1 .. Len(body) : body[i] \in HexDigits
        mag == IF ok THEN DigitsValue(body) ELSE 0
    IN  [ok |-> ok,
         val |-> IF signed /\ Head(t) = "-" THEN 0 - mag ELSE mag]

\* a slip: "greatest" is tested with >=, so a tie also picks the channel
ColorCategoryTiesWin(r, g, b, hex_color) ==
    IF r > 200 /\ g > 200 /\ b > 200 THEN <<"white/cream">>
    ELSE IF r < 50 /\ g < 50 /\ b < 50 THEN <<"black/dark">>
    ELSE IF r >= g /\ r >= b
         THEN (IF r > 200 THEN <<"bright red/coral">> ELSE <<"red/burgundy">>)
    ELSE IF g >= r /\ g >= b
         THEN (IF g > 200 THEN <<"bright green/lime">> ELSE <<"green/forest">>)
    ELSE IF b >= r /\ b >= g
         THEN (IF b > 200 THEN <<"bright blue/sky">> ELSE <<"blue/navy">>)
    ELSE IF r > 180 /\ g > 150 /\ b < 100 THEN <<"golden/amber">>
    ELSE IF r > 150 /\ g > 100 /\ b < 80 THEN <<"brown/tan">>
    ELSE IF r > 200 /\ g > 150 /\ b > 150 THEN <<"pink/rose">>
    ELSE IF r > 100 /\ g > 100 /\ b > 100 THEN <<"gray">>
    ELSE <<"(">> \o hex_color \o <<")">>

ColorCategory(r, g, b, hex_color) ==
    IF r > 200 /\ g > 200 /\ b > 200 THEN <<"white/cream">>
    ELSE IF r < 50 /\ g < 50 /\ b < 50 THEN <<"black/dark">>
    ELSE IF r > g /\ r > b
         THEN (IF r > 200 THEN <<"bright red/coral">> ELSE <<"red/burgundy">>)
    ELSE IF g > r /\ g > b
         THEN (IF g > 200 THEN <<"bright green/lime">> ELSE <<"green/forest">>)
    ELSE IF b > r /\ b > g
         THEN (IF b > 200 THEN <<"bright blue/sky">> ELSE <<"blue/navy">>)
    ELSE IF r > 180 /\ g > 150 /\ b < 100 THEN <<"golden/amber">>
    ELSE IF r > 150 /\ g > 100 /\ b < 80 THEN <<"brown/tan">>
    ELSE IF r > 200 /\ g > 150 /\ b > 150 THEN <<"pink/rose">>
    ELSE IF r > 100 /\ g > 100 /\ b > 100 THEN <<"gray">>
    ELSE <<"(">> \o hex_color \o <<")">>

hex_to_color_name(arg) ==
    LET hex_color == LStripHash(arg)
        r == IntBase16(Slice(hex_color, 0, 2))
        g == IntBase16(Slice(hex_color, 2, 4))
        b == IntBase16(Slice(hex_color, 4, 6))
    IN  IF ~(r.ok /\ g.ok /\ b.ok) THEN hex_color
        ELSE ColorCategory(r.val, g.val, b.val, hex_color)

\* Drawn arguments: every string over a small alphabet up to MaxHexLen
\* tokens ('#', two hex digits, a non-hex letter, a sign), and "#RRGGBB"
\* for channel values on both sides of every threshold of the classifier.
HexAlphabet == {"#", "0", "f", "g", "-"}
RECURSIVE StringsUpTo(_)
StringsUpTo(n) ==
    IF n = 0 THEN {<<>>}
    ELSE LET shorter == StringsUpTo(n - 1)
         IN  shorter \cup {Append(s, c) : s \in shorter, c \in HexAlphabet}

HexChar == <<"0", "1", "2", "3", "4", "5", "6", "7", "8", "9",
             "a", "b", "c", "d", "e", "f">>
Hex2(v) == <<HexChar[(v \div 16) + 1], HexChar[(v % 16) + 1]>>
ChannelValues == {0, 49, 50, 79, 80, 99, 100, 101, 150, 151, 180, 181,
                  200, 201, 255}
HexInputs == StringsUpTo(MaxHexLen)
                \cup {<<"#">> \o Hex2(r) \o Hex2(g) \o Hex2(b) :
                        r \in ChannelValues, g \in ChannelValues,
                        b \in ChannelValues}

(***************************************************************************)
(* Prompt compiler                                                         *)
(* A dict is a function whose DOMAIN is the set of keys present; a string  *)
(* or list value is a sequence, falsy exactly when it is <<>>.             *)
(***************************************************************************)
Truthy(d, k) == k \in DOMAIN d /\ d[k] # <<>>

\* sep.join(parts) for a sequence of strings
RECURSIVE Join(_, _)
Join(sep, parts) ==
    IF parts = <<>> THEN <<>>
    ELSE IF Len(parts) = 1 THEN parts[1]
    ELSE parts[1] \o sep \o Join(sep, Tail(parts))

Decimal == <<"1", "2", "3", "4", "5", "6", "7", "8", "9">>

Labelled(d, k, label) ==
    IF Truthy(d, k) THEN <<(<<label>> \o d[k])>> ELSE <<>>

SubjectParts(subject) ==
    (IF "description" \in DOMAIN subject
        THEN <<subject["description"]>> ELSE <<>>)
    \o (IF "position" \in DOMAIN subject
        THEN <<(<<"positioned ">> \o subject["position"])>> ELSE <<>>)
    \o (IF "action" \in DOMAIN subject
        THEN <<subject["action"]>> ELSE <<>>)

RECURSIVE SubjectDescriptions(_, _)
SubjectDescriptions(subjects, i) ==
    IF i > Len(subjects) THEN <<>>
    ELSE LET parts == SubjectParts(subjects[i])
         IN  (IF parts # <<>>
              THEN <<(<<"Subject ", Decimal[i], ": ">> \o Join(<<", ">>, parts))>>
              ELSE <<>>)
             \o SubjectDescriptions(subjects, i + 1)

SubjectsSection(d) ==
    IF Truthy(d, "subjects")
    THEN LET subject_descriptions == SubjectDescriptions(d["subjects"], 1)
         IN  IF subject_descriptions # <<>>
             THEN <<Join(<<"\n">>, subject_descriptions)>> ELSE <<>>
    ELSE <<>>

ColorDescriptions(colors) ==
    [i \in 1 .. Len(colors) |->
        colors[i] \o <<" (">> \o hex_to_color_name(colors[i]) \o <<")">>]

PaletteSection(d) ==
    IF Truthy(d, "color_palette")
    THEN <<(<<"Color palette: ">>
              \o Join(<<", ">>, ColorDescriptions(d["color_palette"])))>>
    ELSE <<>>

CameraSection(d) ==
    IF Truthy(d, "camera")
    THEN LET cam == d["camera"]
             cam_parts ==
                (IF "angle" \in DOMAIN cam
                    THEN <<(<<"Camera angle: ">> \o cam["angle"])>> ELSE <<>>)
                \o (IF "lens" \in DOMAIN cam
                    THEN <<(<<"Lens: ">> \o cam["lens"])>> ELSE <<>>)
                \o (IF "depth_of_field" \in DOMAIN cam
                    THEN <<(<<"Depth of field: ">> \o cam["depth_of_field"])>>
                    ELSE <<>>)
         IN  IF cam_parts # <<>> THEN <<Join(<<" | ">>, cam_parts)>> ELSE <<>>
    ELSE <<>>

TextDesc(text) ==
    (IF "content" \in DOMAIN text
        THEN <<(<<"Text reading \"">> \o text["content"] \o <<"\"">>)>>
        ELSE <<>>)
    \o (IF "style" \in DOMAIN text
        THEN <<(<<"in ">> \o text["style"])>> ELSE <<>>)
    \o (IF "position" \in DOMAIN text
        THEN <<(<<"located ">> \o text["position"])>> ELSE <<>>)
    \o (IF "color" \in DOMAIN text
        THEN <<(<<"in ">> \o hex_to_color_name(text["color"]) \o <<" color">>)>>
        ELSE <<>>)

RECURSIVE TextParts(_)
TextParts(texts) ==
    IF texts = <<>> THEN <<>>
    ELSE LET text_desc == TextDesc(Head(texts))
         IN  (IF text_desc # <<>> THEN <<Join(<<" ">>, text_desc)>> ELSE <<>>)
             \o TextParts(Tail(texts))

TextSection(d) ==
    IF Truthy(d, "text_elements")
    THEN LET text_parts == TextParts(d["text_elements"])
         IN  IF text_parts # <<>>
             THEN <<(<<"Text elements: ">> \o Join(<<"; ">>, text_parts))>>
             ELSE <<>>
    ELSE <<>>

\* a slip: the style section is emitted before the subjects
PromptSectionsStyleFirst(d) ==
    Labelled(d, "scene", "Scene: ")
    \o Labelled(d, "style", "Style: ")
    \o SubjectsSection(d)
    \o PaletteSection(d)
    \o Labelled(d, "lighting", "Lighting: ")
    \o Labelled(d, "mood", "Mood and atmosphere: ")
    \o Labelled(d, "background", "Background: ")
    \o Labelled(d, "composition", "Composition: ")
    \o CameraSection(d)
    \o TextSection(d)

PromptSections(d) ==
    Labelled(d, "scene", "Scene: ")
    \o SubjectsSection(d)
    \o Labelled(d, "style", "Style: ")
    \o PaletteSection(d)
    \o Labelled(d, "lighting", "Lighting: ")
    \o Labelled(d, "mood", "Mood and atmosphere: ")
    \o Labelled(d, "background", "Background: ")
    \o Labelled(d, "composition", "Composition: ")
    \o CameraSection(d)
    \o TextSection(d)

build_prompt_from_structure(structured) ==
    Join(<<"\n\n">>, PromptSections(structured))

(***************************************************************************)
(* Configuration, environment and remote service of one run of main()      *)
(***************************************************************************)
OUTPUT_FORMAT == "png"
SEED == None
SAFETY_TOLERANCE == 5
SIMPLE_PROMPT == <<"Your plain text prompt here if not using structured mode">>

Hex(a, b, c, d, e, f) == <<"#", a, b, c, d, e, f>>

STRUCTURED_PROMPT ==
    [scene |-> <<"A cozy coffee shop interior on a rainy afternoon">>,
     subjects |->
        <<[description |-> <<"A young woman with curly auburn hair">>,
           position |-> <<"seated at a window table">>,
           action |-> <<"reading a vintage hardcover book">>],
          [description |-> <<"A black cat">>,
           position |-> <<"curled up on the chair beside her">>,
           action |-> <<"sleeping peacefully">>]>>,
     style |-> <<"Cinematic photography with film grain">>,
     color_palette |->
        <<Hex("0", "0", "0", "0", "8", "0"), Hex("8", "B", "4", "5", "1", "3"),
          Hex("F", "5", "F", "5", "D", "C"), Hex("2", "F", "4", "F", "4", "F"),
          Hex("F", "F", "E", "4", "B", "5"), Hex("D", "E", "B", "8", "8", "7")>>,
     lighting |-> <<"Soft diffused natural light">>,
     mood |-> <<"Peaceful, nostalgic, hygge atmosphere">>,
     background |-> <<"Exposed brick walls with vintage posters">>,
     composition |-> <<"Rule of thirds">>,
     camera |-> [angle |-> <<"Eye level">>,
                 lens |-> <<"50mm prime lens equivalent">>,
                 depth_of_field |-> <<"Shallow, f/2.0">>],
     text_elements |->
        <<[content |-> <<"COFFEE & CIGARS">>,
           style |-> <<"Vintage hand-painted sign lettering">>,
           position |-> <<"On a wooden sign hanging on the back wall">>,
           color |-> Hex("2", "F", "1", "8", "1", "0")]>>]

\* Values the editable settings and the environment are drawn from.
ApiKeys == {None, "", "secret"}
AspectRatios == {None, "bogus", "4:3", "16:9"}
CustomWidths == {48, 1001, 1920}
CustomHeights == {1081, 3000, 3990}
Modes == {"generate", "edit"}

Configs ==
    {c \in [api_key : ApiKeys, ASPECT_RATIO : AspectRatios,
            WIDTH : CustomWidths \cup {1536},
            HEIGHT : CustomHeights \cup {1152},
            MODE : Modes, input_exists : BOOLEAN,
            USE_STRUCTURED_PROMPT : BOOLEAN, SAVE_PROMPT_JSON : BOOLEAN] :
        \* settings that are never read in a run keep the shipped value
        /\ (c.ASPECT_RATIO # None => c.WIDTH = 1536 /\ c.HEIGHT = 1152)
        /\ (c.ASPECT_RATIO = None =>
                c.WIDTH \in CustomWidths /\ c.HEIGHT \in CustomHeights)
        /\ (c.MODE # "edit" => ~c.input_exists)}

\* What the remote service (or the network) may answer.
SubmitResponses ==
    {[outcome |-> "raise", status_code |-> 0, id |-> None]}
    \cup [outcome : {"response"}, status_code : {500}, id : {None}]
    \cup [outcome : {"response"}, status_code : {200},
          id : {None, "", "abc123"}]

NoPoll == [outcome |-> "raise", status_code |-> 0, status |-> None,
           result |-> "absent", sample |-> None, error |-> None]
TransientStatuses == {"Pending", "Processing", "Queued"}
ImageUrls == {"https://x/y.png", "https://x/z.png"}
PollResponses ==
    {NoPoll}
    \cup {[NoPoll EXCEPT !.outcome = "response", !.status_code = 500]}
    \cup {[NoPoll EXCEPT !.outcome = "response", !.status_code = 200,
                         !.status = st] :
            st \in TransientStatuses \cup {"Moderated", None}}
    \cup {[NoPoll EXCEPT !.outcome = "response", !.status_code = 200,
                         !.status = "Error", !.error = e] :
            e \in {None, "bad input"}}
    \cup {[NoPoll EXCEPT !.outcome = "response", !.status_code = 200,
                         !.status = "Ready", !.result = r] :
            r \in {"absent", "null"}}
    \cup {[NoPoll EXCEPT !.outcome = "response", !.status_code = 200,
                         !.status = "Ready", !.result = "object",
                         !.sample = u] :
            u \in {None, ""} \cup ImageUrls}

DownloadResponses ==
    {[outcome |-> "raise", status_code |-> 0, content |-> None]}
    \cup [outcome : {"response"}, status_code : {200, 404},
          content : {"image bytes"}]

(***************************************************************************)
(* Initial states                                                          *)
(***************************************************************************)
DimIdle == vd_args = <<0, 0>> /\ vd_ret = <<>>
HexIdle == hex_arg = <<>> /\ hex_ret = <<>>
PromptIdle == bp_arg = <<>> /\ bp_ret = <<>>
MainLocals ==
    /\ width = 0
    /\ height = 0
    /\ final_prompt = <<>>
    /\ task_id = ""
    /\ attempt = 0
    /\ result = <<>>
    /\ image_url = ""
    /\ exit_status = <<>>
    /\ stdout = <<>>
    /\ submitted = <<>>
    /\ polled = 0
    /\ last_poll = <<>>
    /\ downloaded = <<>>
    /\ files = <<>>
\* the shipped settings, with no API key in the environment
ShippedConfig ==
    [api_key |-> None, ASPECT_RATIO |-> "4:3", WIDTH |-> 1536,
     HEIGHT |-> 1152, MODE |-> "generate", input_exists |-> FALSE,
     USE_STRUCTURED_PROMPT |-> TRUE, SAVE_PROMPT_JSON |-> TRUE]

MainIdle ==
    /\ cfg = ShippedConfig
    /\ pc = "idle"
    /\ MainLocals

Init ==
    /\ cfg \in Configs
    /\ pc = "get_api_key"
    /\ MainLocals
    /\ DimIdle
    /\ HexIdle
    /\ PromptIdle

InitDim ==
    /\ vd_args \in DimPairs
    /\ vd_ret = <<>>
    /\ HexIdle
    /\ PromptIdle
    /\ MainIdle

InitHex ==
    /\ hex_arg \in HexInputs
    /\ hex_ret = <<>>
    /\ DimIdle
    /\ PromptIdle
    /\ MainIdle

pureVars == <<vd_args, vd_ret, hex_arg, hex_ret, bp_arg, bp_ret>>
mainVars == <<cfg, pc, width, height, final_prompt, task_id, attempt, result,
              image_url, exit_status, stdout, submitted, polled, last_poll,
              downloaded, files>>

\* Drawn structured prompts.  Every key is absent or present; a present
\* value is empty (falsy) or not; lists hold entries that render and entries
\* that do not; an option is picked per key by its number.
SceneOption(i) ==
    CASE i = 1 -> <<>>
      [] i = 2 -> << <<>> >>
      [] i = 3 -> << <<"a scene">> >>
StyleOption(i) ==
    CASE i = 1 -> <<>>
      [] i = 2 -> << <<>> >>
      [] i = 3 -> << <<"a style">> >>
PlainOption(i) ==
    CASE i = 1 -> <<>>
      [] i = 2 -> << <<"some text">> >>
SubjectsOption(i) ==
    CASE i = 1 -> <<>>
      [] i = 2 -> << <<>> >>
      [] i = 3 -> << << <<>> >> >>
      [] i = 4 -> << <<[description |-> <<"a cat">>,
                        position |-> <<"left">>,
                        action |-> <<"sleeping">>]>> >>
      [] i = 5 -> << << <<>>, [action |-> <<"running">>] >> >>
      [] i = 6 -> << <<[description |-> <<>>]>> >>
PaletteOption(i) ==
    CASE i = 1 -> <<>>
      [] i = 2 -> << <<>> >>
      [] i = 3 -> << <<Hex("f", "f", "0", "0", "0", "0"), <<"z", "z">> >> >>
CameraOption(i) ==
    CASE i = 1 -> <<>>
      [] i = 2 -> << <<>> >>
      [] i = 3 -> <<[iso |-> <<"100">>]>>
      [] i = 4 -> <<[lens |-> <<"50mm">>]>>
      [] i = 5 -> <<[angle |-> <<"eye level">>, lens |-> <<"50mm">>,
                     depth_of_field |-> <<"shallow">>]>>
TextElementsOption(i) ==
    CASE i = 1 -> <<>>
      [] i = 2 -> << <<>> >>
      [] i = 3 -> << << <<>> >> >>
      [] i = 4 -> << <<[content |-> <<"OPEN">>, style |-> <<"bold">>,
                        position |-> <<"top">>,
                        color |-> Hex("f", "f", "f", "f", "f", "f")]>> >>
      [] i = 5 -> << << <<>>, [color |-> <<"#", "g">>] >> >>

PromptKeys == {"scene", "subjects", "style", "color_palette", "lighting",
               "mood", "background", "composition", "camera", "text_elements"}
PromptChoices ==
    [scene : 1 .. 3, subjects : 1 .. 6, style : 1 .. 3,
     color_palette : 1 .. 3, lighting : 1 .. 2, mood : 1 .. 2,
     background : 1 .. 2, composition : 1 .. 2, camera : 1 .. 5,
     text_elements : 1 .. 5]
Chosen(c, k) ==
    CASE k = "scene" -> SceneOption(c[k])
      [] k = "subjects" -> SubjectsOption(c[k])
      [] k = "style" -> StyleOption(c[k])
      [] k = "color_palette" -> PaletteOption(c[k])
      [] k = "camera" -> CameraOption(c[k])
      [] k = "text_elements" -> TextElementsOption(c[k])
      [] OTHER -> PlainOption(c[k])
\* the dict that holds exactly the keys chosen to be present
PromptOf(c) ==
    [k \in {key \in PromptKeys : c[key] # 1} |-> Chosen(c, k)[1]]

InitPrompt ==
    /\ \E c \in PromptChoices : bp_arg = PromptOf(c)
    /\ bp_ret = <<>>
    /\ DimIdle
    /\ HexIdle
    /\ MainIdle

(***************************************************************************)
(* The pure functions, applied                                             *)
(***************************************************************************)
ValidateDimensions ==
    /\ vd_ret = <<>>
    /\ vd_ret' = <<validate_dimensions(vd_args[1], vd_args[2])>>
    /\ UNCHANGED <<vd_args, hex_arg, hex_ret, bp_arg, bp_ret>>
    /\ UNCHANGED mainVars

HexToColorName ==
    /\ hex_ret = <<>>
    /\ hex_ret' = <<hex_to_color_name(hex_arg)>>
    /\ UNCHANGED <<vd_args, vd_ret, hex_arg, bp_arg, bp_ret>>
    /\ UNCHANGED mainVars

BuildPromptFromStructure ==
    /\ bp_ret = <<>>
    /\ bp_ret' = <<build_prompt_from_structure(bp_arg)>>
    /\ UNCHANGED <<vd_args, vd_ret, hex_arg, hex_ret, bp_arg>>
    /\ UNCHANGED mainVars

(***************************************************************************)
(* main()                                                                  *)
(***************************************************************************)
Line(text, detail) == [text |-> text, detail |-> detail]

\* sys.exit(1) after printing the given lines
Exit1(lines) ==
    /\ pc' = "exit"
    /\ exit_status' = <<1>>
    /\ stdout' = stdout \o lines

\* an exception nobody catches: traceback, exit status 1
Crash ==
    /\ pc' = "crashed"
    /\ exit_status' = <<1>>
    /\ stdout' = stdout

GetApiKey ==
    /\ pc = "get_api_key"
    /\ IF cfg.api_key \in {None, ""}
       THEN Exit1(<<Line("ERROR: BFL_API_KEY environment variable not set.",
                         None)>>)
       ELSE pc' = "get_dimensions" /\ UNCHANGED <<exit_status, stdout>>
    /\ UNCHANGED <<cfg, width, height, final_prompt, task_id, attempt, result,
                   image_url, submitted, polled, last_poll, downloaded, files>>
    /\ UNCHANGED pureVars

ErrorLines(errors) ==
    [i \in 1 .. Len(errors) |-> Line("ERROR: ", errors[i].kind)]

\* a slip: the requested values are returned instead of the adjusted ones
get_dimensions_unadjusted(c) ==
    IF c.ASPECT_RATIO # None /\ c.ASPECT_RATIO \notin DOMAIN ASPECT_RATIO_PRESETS
    THEN [exits |-> TRUE, width |-> 0, height |-> 0,
          lines |-> <<Line("ERROR: Unknown aspect ratio ", c.ASPECT_RATIO)>>]
    ELSE LET w == IF c.ASPECT_RATIO # None
                  THEN ASPECT_RATIO_PRESETS[c.ASPECT_RATIO][1] ELSE c.WIDTH
             h == IF c.ASPECT_RATIO # None
                  THEN ASPECT_RATIO_PRESETS[c.ASPECT_RATIO][2] ELSE c.HEIGHT
             v == validate_dimensions(w, h)
         IN  IF v.errors # <<>>
             THEN [exits |-> TRUE, width |-> 0, height |-> 0,
                   lines |-> ErrorLines(v.errors)]
             ELSE [exits |-> FALSE, width |-> w, height |-> h, lines |-> <<>>]

\* get_dimensions(): what it returns, or that it exits and what it prints
get_dimensions(c) ==
    IF c.ASPECT_RATIO # None /\ c.ASPECT_RATIO \notin DOMAIN ASPECT_RATIO_PRESETS
    THEN [exits |-> TRUE, width |-> 0, height |-> 0,
          lines |-> <<Line("ERROR: Unknown aspect ratio ", c.ASPECT_RATIO)>>]
    ELSE LET w == IF c.ASPECT_RATIO # None
                  THEN ASPECT_RATIO_PRESETS[c.ASPECT_RATIO][1] ELSE c.WIDTH
             h == IF c.ASPECT_RATIO # None
                  THEN ASPECT_RATIO_PRESETS[c.ASPECT_RATIO][2] ELSE c.HEIGHT
             v == validate_dimensions(w, h)
         IN  IF v.errors # <<>>
             THEN [exits |-> TRUE, width |-> 0, height |-> 0,
                   lines |-> ErrorLines(v.errors)]
             ELSE [exits |-> FALSE, width |-> v.adjusted_width,
                   height |-> v.adjusted_height, lines |-> <<>>]

GetDimensions ==
    /\ pc = "get_dimensions"
    /\ LET d == get_dimensions(cfg)
       IN  IF d.exits
           THEN Exit1(d.lines) /\ UNCHANGED <<width, height>>
           ELSE /\ width' = d.width
                /\ height' = d.height
                /\ pc' = "build_prompt"
                /\ UNCHANGED <<exit_status, stdout>>
    /\ UNCHANGED <<cfg, final_prompt, task_id, attempt, result, image_url,
                   submitted, polled, last_poll, downloaded, files>>
    /\ UNCHANGED pureVars

BuildPrompt ==
    /\ pc = "build_prompt"
    /\ final_prompt' = IF cfg.USE_STRUCTURED_PROMPT
                       THEN build_prompt_from_structure(STRUCTURED_PROMPT)
                       ELSE SIMPLE_PROMPT
    /\ pc' = "input_image"
    /\ UNCHANGED <<cfg, width, height, task_id, attempt, result, image_url,
                   exit_status, stdout, submitted, polled, last_poll,
                   downloaded, files>>
    /\ UNCHANGED pureVars

PrepareInputImage ==
    /\ pc = "input_image"
    /\ IF cfg.MODE = "edit" /\ ~cfg.input_exists
       THEN Exit1(<<Line("ERROR: Input image not found: ", None)>>)
       ELSE pc' = "submit" /\ UNCHANGED <<exit_status, stdout>>
    /\ UNCHANGED <<cfg, width, height, final_prompt, task_id, attempt, result,
                   image_url, submitted, polled, last_poll, downloaded, files>>
    /\ UNCHANGED pureVars

\* submit_task(): the JSON body of the POST
Payload(prompt, w, h, input_image_path) ==
    [prompt |-> prompt, width |-> w, height |-> h,
     output_format |-> OUTPUT_FORMAT, safety_tolerance |-> SAFETY_TOLERANCE,
     seed |-> SEED,
     input_image |-> IF input_image_path # None
                     THEN "data:image/png;base64" ELSE None]

\* a slip: only a missing id is refused, an empty one is accepted
TaskIdIsNone(id) == id = None

\* main(): "if not task_id"
NoTaskId(id) == id \in {None, ""}

\* submit_task() and the check of the task id that follows it in main()
SubmitTask(resp) ==
    /\ pc = "submit"
    /\ submitted' = Append(submitted,
            [payload |-> Payload(final_prompt, width, height,
                            IF cfg.MODE = "edit" THEN "input.png" ELSE None),
             response |-> resp])
    /\ IF resp.outcome = "raise"
       THEN Crash /\ UNCHANGED <<task_id, attempt>>
       ELSE IF resp.status_code # 200
       THEN /\ Exit1(<<Line("ERROR: API returned status ", None)>>)
            /\ UNCHANGED <<task_id, attempt>>
       ELSE IF NoTaskId(resp.id)
       THEN /\ Exit1(<<Line("ERROR: No task ID received from API.", None)>>)
            /\ task_id' = resp.id
            /\ UNCHANGED attempt
       ELSE /\ task_id' = resp.id
            /\ attempt' = 0
            /\ pc' = "poll"
            /\ UNCHANGED <<exit_status, stdout>>
    /\ UNCHANGED <<cfg, width, height, final_prompt, result, image_url, polled,
                   last_poll, downloaded, files>>
    /\ UNCHANGED pureVars

\* a slip: the loop bound is off by one
LoopContinuesInclusive(n) == n <= MAX_POLL_ATTEMPTS

\* poll_for_result(): range(MAX_POLL_ATTEMPTS) has another value to yield
LoopContinues(n) == n < MAX_POLL_ATTEMPTS

\* a slip: "Ready" is matched in the wrong case, so it counts as unknown
PollVerdictReadyMissed(resp) ==
    IF resp.outcome = "raise" THEN "raise"
    ELSE IF resp.status_code # 200 THEN "retry"
    ELSE IF resp.status = "ready" THEN "return"
    ELSE IF resp.status = "Error" THEN "exit"
    ELSE "retry"

\* a slip: "Error" is listed with the statuses that are waited on
PollVerdictErrorRetried(resp) ==
    IF resp.outcome = "raise" THEN "raise"
    ELSE IF resp.status_code # 200 THEN "retry"
    ELSE IF resp.status = "Ready" THEN "return"
    ELSE "retry"

\* poll_for_result(): what one response makes the loop body do
PollVerdict(resp) ==
    IF resp.outcome = "raise" THEN "raise"
    ELSE IF resp.status_code # 200 THEN "retry"
    ELSE IF resp.status = "Ready" THEN "return"
    ELSE IF resp.status = "Error" THEN "exit"
    ELSE IF resp.status \in TransientStatuses THEN "retry"
    ELSE "retry"

\* poll_for_result(): one iteration of the for loop.  attempt counts the
\* iterations already completed (the loop variable of the next one).
PollOnce(resp) ==
    /\ pc = "poll"
    /\ LoopContinues(attempt)
    /\ polled' = polled + 1
    /\ last_poll' = <<resp>>
    /\ LET verdict == PollVerdict(resp)
       IN  CASE verdict = "raise" -> Crash /\ UNCHANGED <<attempt, result>>
             [] verdict = "return" ->
                    /\ result' = <<resp>>
                    /\ pc' = "image_url"
                    /\ UNCHANGED <<attempt, exit_status, stdout>>
             [] verdict = "exit" ->
                    /\ Exit1(<<Line("ERROR: Task failed with error: ",
                                    IF resp.error # None THEN resp.error
                                    ELSE "Unknown error")>>)
                    /\ UNCHANGED <<attempt, result>>
             [] OTHER ->
                    /\ attempt' = attempt + 1
                    /\ UNCHANGED <<pc, exit_status, stdout, result>>
    /\ UNCHANGED <<cfg, width, height, final_prompt, task_id, image_url,
                   submitted, downloaded, files>>
    /\ UNCHANGED pureVars

\* poll_for_result(): the loop ran out
PollExhausted ==
    /\ pc = "poll"
    /\ ~LoopContinues(attempt)
    /\ Exit1(<<Line("ERROR: Maximum polling attempts reached.", None)>>)
    /\ UNCHANGED <<cfg, width, height, final_prompt, task_id, attempt, result,
                   image_url, submitted, polled, last_poll, downloaded, files>>
    /\ UNCHANGED pureVars

\* result.get("result", {}).get("sample") where that does not raise
SampleOf(r) == IF r.result = "absent" THEN None ELSE r.sample

\* main(): image_url = result.get("result", {}).get("sample")
ExtractImageUrl ==
    /\ pc = "image_url"
    /\ LET r == result[1]
           url == SampleOf(r)
       IN  IF r.result = "null"
           THEN Crash /\ UNCHANGED image_url
           ELSE IF url \in {None, ""}
           THEN /\ Exit1(<<Line("ERROR: No image URL in result.", None)>>)
                /\ image_url' = url
           ELSE /\ image_url' = url
                /\ pc' = "download"
                /\ UNCHANGED <<exit_status, stdout>>
    /\ UNCHANGED <<cfg, width, height, final_prompt, task_id, attempt, result,
                   submitted, polled, last_poll, downloaded, files>>
    /\ UNCHANGED pureVars

mode_prefix == IF cfg.MODE = "edit" THEN "edited" ELSE "generated"

File(suffix, data) == [stem |-> mode_prefix, suffix |-> suffix, data |-> data]

download_and_save_image(resp) ==
    /\ pc = "download"
    /\ downloaded' = Append(downloaded, [url |-> image_url, response |-> resp])
    /\ IF resp.outcome = "raise"
       THEN Crash /\ UNCHANGED files
       ELSE IF resp.status_code # 200
       THEN /\ Exit1(<<Line("ERROR: Failed to download image. Status: ", None)>>)
            /\ UNCHANGED files
       ELSE /\ files' = Append(files, File(OUTPUT_FORMAT, <<resp.content>>))
            /\ pc' = "metadata"
            /\ UNCHANGED <<exit_status, stdout>>
    /\ UNCHANGED <<cfg, width, height, final_prompt, task_id, attempt, result,
                   image_url, submitted, polled, last_poll>>
    /\ UNCHANGED pureVars

\* a slip: the sidecar is written whenever saving is switched on
MetadataWantedBySaveAlone(c) == c.SAVE_PROMPT_JSON

\* main(): "if SAVE_PROMPT_JSON and USE_STRUCTURED_PROMPT"
MetadataWanted(c) == c.SAVE_PROMPT_JSON /\ c.USE_STRUCTURED_PROMPT

\* save_prompt_metadata(): the JSON document (the timestamp is left out)
Metadata(structured_prompt, prompt, c) ==
    [structured_prompt |-> structured_prompt,
     generated_prompt |-> prompt,
     settings |-> [aspect_ratio |-> c.ASPECT_RATIO,
                   output_format |-> OUTPUT_FORMAT,
                   seed |-> SEED,
                   safety_tolerance |-> SAFETY_TOLERANCE]]

\* main(): the optional save_prompt_metadata(), then the normal end
save_prompt_metadata ==
    /\ pc = "metadata"
    /\ files' = IF MetadataWanted(cfg)
                THEN Append(files,
                        File("json",
                             Metadata(STRUCTURED_PROMPT, final_prompt, cfg)))
                ELSE files
    /\ pc' = "done"
    /\ exit_status' = <<0>>
    /\ UNCHANGED <<cfg, width, height, final_prompt, task_id, attempt, result,
                   image_url, stdout, submitted, polled, last_poll, downloaded>>
    /\ UNCHANGED pureVars

Next ==
    \/ GetApiKey
    \/ GetDimensions
    \/ BuildPrompt
    \/ PrepareInputImage
    \/ \E resp \in SubmitResponses : SubmitTask(resp)
    \/ \E resp \in PollResponses : PollOnce(resp)
    \/ PollExhausted
    \/ ExtractImageUrl
    \/ \E resp \in DownloadResponses : download_and_save_image(resp)
    \/ save_prompt_metadata

Spec == Init /\ [][Next]_vars

NextDim == ValidateDimensions
SpecDim == InitDim /\ [][NextDim]_vars

NextHex == HexToColorName
SpecHex == InitHex /\ [][NextHex]_vars

NextPrompt == BuildPromptFromStructure
SpecPrompt == InitPrompt /\ [][NextPrompt]_vars

(***************************************************************************)
(* Properties of the dimension validator (checked under SpecDim)           *)
(***************************************************************************)
Validated == vd_ret # <<>>
ReqW == vd_args[1]
ReqH == vd_args[2]
Ret == vd_ret[1]

\* C1: whenever validate_dimensions returns no error, the adjusted width
\* times the adjusted height is at most 4,000,000.
C1_AdjustedProductWithinLimit ==
    (Validated /\ Ret.errors = <<>>) =>
        Ret.adjusted_width * Ret.adjusted_height <= MAX_MEGAPIXELS

\* C2: for every integer pair, zero, negative and below-minimum values
\* included, each adjusted dimension is at least 64 and a multiple of 16.
C2_AdjustedAtLeastMinAndAligned ==
    Validated =>
        /\ Ret.adjusted_width >= 64
        /\ Ret.adjusted_height >= 64
        /\ Ret.adjusted_width % 16 = 0
        /\ Ret.adjusted_height % 16 = 0

C2_Witness ==
    /\ Validated
    /\ ReqW < 0
    /\ ReqH = 0
    /\ Ret.adjusted_width = 64
    /\ Ret.adjusted_height = 64

\* C3: a pair that is already valid (both at least 64, both multiples of 16,
\* product at most 4,000,000) comes back unchanged, with no error and no
\* warning.
C3_ValidPairUnchanged ==
    (/\ Validated
     /\ ReqW >= 64
     /\ ReqH >= 64
     /\ ReqW % 16 = 0
     /\ ReqH % 16 = 0
     /\ ReqW * ReqH <= 4000000) =>
        /\ Ret.adjusted_width = ReqW
        /\ Ret.adjusted_height = ReqH
        /\ Ret.errors = <<>>
        /\ Ret.warnings = <<>>

C3_Witness ==
    /\ Validated
    /\ vd_args = <<2000, 2000>>
    /\ Ret.errors = <<>>
    /\ Ret.warnings = <<>>

\* C4: the error list is non-empty exactly when the requested width is below
\* 64, or the requested height is below 64, or their product exceeds
\* 4,000,000; the requested values are tested, so an adjustment never removes
\* an error; and each violated rule contributes exactly one error.
Violations ==
    (IF ReqW < 64 THEN <<"WidthBelowMin">> ELSE <<>>)
    \o (IF ReqH < 64 THEN <<"HeightBelowMin">> ELSE <<>>)
    \o (IF ReqW * ReqH > 4000000 THEN <<"TotalPixelsExceeds">> ELSE <<>>)

C4_ErrorsExactlyTheViolations ==
    Validated =>
        /\ (Ret.errors # <<>>) <=>
                (ReqW < 64 \/ ReqH < 64 \/ ReqW * ReqH > 4000000)
        /\ [i \in 1 .. Len(Ret.errors) |-> Ret.errors[i].kind] = Violations

\* both dimensions are rounded up to the minimum, and both errors stay
C4_Witness ==
    /\ Validated
    /\ vd_args = <<60, 60>>
    /\ Ret.adjusted_width = 64
    /\ Ret.adjusted_height = 64
    /\ Len(Ret.errors) = 2

(***************************************************************************)
(* Properties of a run of main() (checked under Spec)                      *)
(***************************************************************************)
Terminated == exit_status # <<>>
KeyPresent == cfg.api_key \notin {None, ""}
PresetKnown ==
    cfg.ASPECT_RATIO = None \/ cfg.ASPECT_RATIO \in DOMAIN ASPECT_RATIO_PRESETS
RequestedWidth ==
    IF cfg.ASPECT_RATIO = None THEN cfg.WIDTH
    ELSE ASPECT_RATIO_PRESETS[cfg.ASPECT_RATIO][1]
RequestedHeight ==
    IF cfg.ASPECT_RATIO = None THEN cfg.HEIGHT
    ELSE ASPECT_RATIO_PRESETS[cfg.ASPECT_RATIO][2]
Validation == validate_dimensions(RequestedWidth, RequestedHeight)
DimensionsChecked == pc \notin {"idle", "get_api_key", "get_dimensions"}

\* C5: when validation yields an error the process exits non-zero and no
\* submit request is ever sent; when it yields none (warnings or not) the run
\* goes on, and the submit payload carries the adjusted width and height.
C5_ErrorsAbortWarningsAdjust ==
    /\ (DimensionsChecked /\ KeyPresent /\ PresetKnown
            /\ Validation.errors # <<>>) =>
            (pc = "exit" /\ exit_status = <<1>> /\ submitted = <<>>)
    /\ (pc = "exit" /\ submitted = <<>> /\ KeyPresent /\ PresetKnown
            /\ Validation.errors = <<>>) =>
            (cfg.MODE = "edit" /\ ~cfg.input_exists)
    /\ submitted # <<>> =>
            /\ Validation.errors = <<>>
            /\ submitted[1].payload.width = Validation.adjusted_width
            /\ submitted[1].payload.height = Validation.adjusted_height

\* a run with warnings only, whose payload differs from the request
C5_Witness ==
    /\ submitted # <<>>
    /\ Validation.warnings # <<>>
    /\ RequestedWidth = 1001
    /\ submitted[1].payload.width = 1008
    /\ RequestedHeight = 1081
    /\ submitted[1].payload.height = 1088

IsReady(r) == r.outcome = "response" /\ r.status_code = 200 /\ r.status = "Ready"
IsError(r) == r.outcome = "response" /\ r.status_code = 200 /\ r.status = "Error"
HasUrl(r) == r.result = "object" /\ r.sample \notin {None, ""}
Ok200(r) == r.outcome = "response" /\ r.status_code = 200
ImageFiles == {i \in 1 .. Len(files) : files[i].suffix = OUTPUT_FORMAT}
SidecarFiles == {i \in 1 .. Len(files) : files[i].suffix = "json"}

\* Once the k-th response is the first Ready one (attempt = k - 1 earlier
\* responses were waited on), exactly k requests were sent and none follows.
StopsAtFirstReady ==
    (last_poll # <<>> /\ IsReady(last_poll[1])) =>
        /\ result = last_poll
        /\ pc # "poll"
        /\ polled = attempt + 1
        /\ polled <= MAX_POLL_ATTEMPTS

\* C6 as stated: after the first Ready response the client has polled exactly
\* k times, performs exactly one download, from result.sample, and writes the
\* output file.
C6_ReadyAlwaysDownloadsAndWrites ==
    /\ StopsAtFirstReady
    /\ (Terminated /\ result # <<>>) =>
            /\ Len(downloaded) = 1
            /\ downloaded[1].url = result[1].sample
            /\ ImageFiles # {}

\* C6 amended: after the first Ready response the client has polled exactly
\* k times and polls no more; if that response carries a non-empty
\* result.sample it performs exactly one download, from that URL, and writes
\* the output file when the download returns HTTP 200; otherwise (no URL, or
\* a failed download) the process ends non-zero and writes no file.
C6_ReadyDownloadsWhenUrlAndWritesOn200 ==
    /\ StopsAtFirstReady
    /\ (Terminated /\ result # <<>> /\ HasUrl(result[1])) =>
            /\ Len(downloaded) = 1
            /\ downloaded[1].url = result[1].sample
            /\ IF Ok200(downloaded[1].response)
               THEN /\ Cardinality(ImageFiles) = 1
                    /\ files[1].suffix = OUTPUT_FORMAT
                    /\ files[1].data = <<downloaded[1].response.content>>
                    /\ exit_status = <<0>>
               ELSE files = <<>> /\ exit_status = <<1>>
    /\ (Terminated /\ result # <<>> /\ ~HasUrl(result[1])) =>
            (downloaded = <<>> /\ files = <<>> /\ exit_status = <<1>>)

\* two responses were waited on, the third was Ready: three requests, one
\* download from its URL, the file written
C6_Witness ==
    /\ pc = "done"
    /\ polled = 3
    /\ attempt = 2
    /\ IsReady(last_poll[1])
    /\ downloaded = <<[url |-> "https://x/y.png",
                       response |-> [outcome |-> "response",
                                     status_code |-> 200,
                                     content |-> "image bytes"]]>>
    /\ ImageFiles = {1}

\* C7: a poll response with HTTP 200 and status Error ends the process with a
\* non-zero status and the server's error message on the last printed line;
\* no poll request follows it, nothing is downloaded, no file is written.
ErrorSeen == last_poll # <<>> /\ IsError(last_poll[1])

C7_ErrorStatusIsFatal ==
    /\ [](ErrorSeen =>
            /\ pc = "exit"
            /\ exit_status = <<1>>
            /\ stdout # <<>>
            /\ stdout[Len(stdout)].text = "ERROR: Task failed with error: "
            /\ (last_poll[1].error # None =>
                    stdout[Len(stdout)].detail = last_poll[1].error)
            /\ polled = attempt + 1
            /\ downloaded = <<>>
            /\ files = <<>>)
    /\ [][ErrorSeen => (polled' = polled /\ downloaded' = downloaded
                            /\ files' = files)]_vars

C7_Witness ==
    /\ ErrorSeen
    /\ last_poll[1].error = "bad input"
    /\ polled = 2
    /\ stdout[Len(stdout)].detail = "bad input"
    /\ exit_status = <<1>>

\* C8: at most MAX_POLL_ATTEMPTS poll requests are sent; every non-200
\* response and every response whose status is neither Ready nor Error uses
\* up exactly one attempt; and when the budget runs out the process ends
\* non-zero with nothing downloaded.  Termination of the loop is stated by
\* its variant: a step taken inside the loop either leaves it or raises
\* attempt, which never exceeds MAX_POLL_ATTEMPTS.
WaitedOn(r) ==
    /\ r.outcome = "response"
    /\ (r.status_code # 200 \/ r.status \notin {"Ready", "Error"})

C8_PollingIsBounded ==
    /\ [](polled <= 120 /\ attempt <= polled)
    /\ [][(polled' # polled) =>
            /\ polled' = polled + 1
            /\ attempt' = IF WaitedOn(last_poll'[1]) THEN attempt + 1
                          ELSE attempt]_vars
    /\ []((Terminated /\ attempt = 120) =>
            /\ polled = 120
            /\ exit_status = <<1>>
            /\ downloaded = <<>>
            /\ files = <<>>)
    /\ [][(pc = "poll" /\ pc' = "poll") => attempt' = attempt + 1]_vars
    /\ []((pc = "poll" /\ attempt = 120) => ENABLED PollExhausted)

C8_Witness ==
    /\ pc = "exit"
    /\ polled = 120
    /\ attempt = 120
    /\ WaitedOn(last_poll[1])
    /\ last_poll[1].status_code = 500
    /\ stdout[Len(stdout)].text = "ERROR: Maximum polling attempts reached."

\* C9: submit only after the API key is present, validation found no error
\* and (edit mode) the input image exists; poll only after submit returned
\* HTTP 200 with a non-empty task id; download only after a poll returned
\* Ready with a non-empty result.sample; the image file only after the
\* download returned HTTP 200.  A failed gate ends the process non-zero with
\* no later action; submit and download happen at most once.
SubmitOk ==
    /\ submitted # <<>>
    /\ Ok200(submitted[1].response)
    /\ submitted[1].response.id \notin {None, ""}
GatesBeforeSubmit ==
    /\ KeyPresent
    /\ PresetKnown
    /\ Validation.errors = <<>>
    /\ (cfg.MODE = "edit" => cfg.input_exists)

C9_ActionsAreGatedInOrder ==
    /\ Len(submitted) <= 1
    /\ Len(downloaded) <= 1
    /\ submitted # <<>> => GatesBeforeSubmit
    /\ polled > 0 => (SubmitOk /\ task_id = submitted[1].response.id)
    /\ downloaded # <<>> =>
            /\ polled > 0
            /\ IsReady(last_poll[1])
            /\ HasUrl(last_poll[1])
            /\ downloaded[1].url = last_poll[1].sample
    /\ files # <<>> => (downloaded # <<>> /\ Ok200(downloaded[1].response))
    \* a failed gate has ended the process
    /\ (pc # "get_api_key" /\ ~KeyPresent) => exit_status = <<1>>
    /\ (DimensionsChecked /\ ~(PresetKnown /\ Validation.errors = <<>>)) =>
            exit_status = <<1>>
    /\ (pc \notin {"get_api_key", "get_dimensions", "build_prompt",
                   "input_image"} /\ ~GatesBeforeSubmit) => exit_status = <<1>>
    /\ (submitted # <<>> /\ ~SubmitOk) => exit_status = <<1>>
    /\ (result # <<>> /\ ~HasUrl(result[1]) /\ pc # "image_url") =>
            exit_status = <<1>>
    /\ (downloaded # <<>> /\ ~Ok200(downloaded[1].response)) =>
            exit_status = <<1>>
    /\ exit_status = <<1>> => pc \in {"exit", "crashed"}
    /\ Terminated <=> pc \in {"exit", "crashed", "done"}

\* an edit run that passed every gate and wrote the image
C9_Witness ==
    /\ pc = "done"
    /\ cfg.MODE = "edit"
    /\ cfg.input_exists
    /\ Len(submitted) = 1
    /\ polled > 1
    /\ Len(downloaded) = 1
    /\ ImageFiles # {}

(***************************************************************************)
(* Properties of the color namer (checked under SpecHex)                   *)
(***************************************************************************)
Named == hex_ret # <<>>
AllHex(str) == \A i \in 1 .. Len(str) : str[i] \in HexDigits
\* "#RRGGBB": a '#' followed by exactly six hex digits
WellFormedHex ==
    Len(hex_arg) = 7 /\ hex_arg[1] = "#" /\ AllHex(Tail(hex_arg))
\* wrong length, or a non-hex character, after the '#' if there is one
MalformedHex ==
    LET digits == IF hex_arg # <<>> /\ hex_arg[1] = "#"
                  THEN Tail(hex_arg) ELSE hex_arg
    IN  Len(digits) # 6 \/ ~AllHex(digits)

\* C10: for every "#RRGGBB" the namer returns a non-empty name; for every
\* malformed input (wrong length, or a non-hex character) it returns the
\* input string unchanged.
C10_NameOrInputUnchanged ==
    Named =>
        /\ WellFormedHex => hex_ret[1] # <<>>
        /\ MalformedHex => hex_ret[1] = hex_arg

\* C11: for "#RRGGBB" with channels in 0..255 the namer returns the name of
\* the first rule that matches, in the order: all > 200 white/cream; all < 50
\* black/dark; r strictly greatest (bright red/coral if r > 200, else
\* red/burgundy); g strictly greatest (bright green/lime, green/forest); b
\* strictly greatest (bright blue/sky, blue/navy); r>180,g>150,b<100
\* golden/amber; r>150,g>100,b<80 brown/tan; r>200,g>150,b>150 pink/rose; all
\* > 100 gray; otherwise the hex digits in parentheses.
ChannelOf(i) ==
    16 * HexDigitValue[hex_arg[i]] + HexDigitValue[hex_arg[i + 1]]
RuleTable ==
    LET r == ChannelOf(2)
        g == ChannelOf(4)
        b == ChannelOf(6)
    IN  <<[hit |-> r > 200 /\ g > 200 /\ b > 200, name |-> <<"white/cream">>],
          [hit |-> r < 50 /\ g < 50 /\ b < 50, name |-> <<"black/dark">>],
          [hit |-> r > g /\ r > b /\ r > 200, name |-> <<"bright red/coral">>],
          [hit |-> r > g /\ r > b, name |-> <<"red/burgundy">>],
          [hit |-> g > r /\ g > b /\ g > 200, name |-> <<"bright green/lime">>],
          [hit |-> g > r /\ g > b, name |-> <<"green/forest">>],
          [hit |-> b > r /\ b > g /\ b > 200, name |-> <<"bright blue/sky">>],
          [hit |-> b > r /\ b > g, name |-> <<"blue/navy">>],
          [hit |-> r > 180 /\ g > 150 /\ b < 100, name |-> <<"golden/amber">>],
          [hit |-> r > 150 /\ g > 100 /\ b < 80, name |-> <<"brown/tan">>],
          [hit |-> r > 200 /\ g > 150 /\ b > 150, name |-> <<"pink/rose">>],
          [hit |-> r > 100 /\ g > 100 /\ b > 100, name |-> <<"gray">>],
          [hit |-> TRUE, name |-> <<"(">> \o Tail(hex_arg) \o <<")">>]>>
FirstHit ==
    CHOOSE i \in 1 .. Len(RuleTable) :
        RuleTable[i].hit /\ \A j \in 1 .. (i - 1) : ~RuleTable[j].hit

WarningsOfKind(kind) == SelectSeq(Ret.warnings, LAMBDA m : m.kind = kind)
ErrorsOfKind(kind) == SelectSeq(Ret.errors, LAMBDA m : m.kind = kind)
Distance(x, y) == IF x >= y THEN x - y ELSE y - x

\* one dimension: req is the requested value, adjusted the returned one
RoundedToNearest(req, adjusted, adjustKind, clampKind) ==
    LET adj == WarningsOfKind(adjustKind)
    IN  /\ req % 16 # 0 =>
            /\ Len(adj) = 1
            /\ adj[1].a = req
            /\ adj[1].b % 16 = 0
            /\ Distance(adj[1].b, req) <= 8
            /\ adjusted = (IF adj[1].b < 64 THEN 64 ELSE adj[1].b)
        /\ (req % 16 = 0 /\ req >= 64) =>
            /\ adj = <<>>
            /\ WarningsOfKind(clampKind) = <<>>
            /\ adjusted = req

\* C13: a dimension that is not a multiple of 16 is replaced, before any
\* clamp, by a multiple of 16 at distance at most 8, with exactly one
\* adjustment warning for it; a dimension that is a multiple of 16 and at
\* least 64 produces no warning; (1920, 1081) gives (1920, 1088) with one
\* warning and no error.
C13_RoundsToNearestWithOneWarning ==
    Validated =>
        /\ RoundedToNearest(ReqW, Ret.adjusted_width,
                            "WidthAdjusted", "WidthSetToMin")
        /\ RoundedToNearest(ReqH, Ret.adjusted_height,
                            "HeightAdjusted", "HeightSetToMin")
        /\ vd_args = <<1920, 1081>> =>
                Ret = [adjusted_width |-> 1920, adjusted_height |-> 1088,
                       errors |-> <<>>,
                       warnings |-> <<Msg("HeightAdjusted", 1081, 1088)>>]

C13_Witness ==
    /\ Validated
    /\ vd_args = <<1920, 1081>>
    /\ Ret.adjusted_height = 1088
    /\ Len(Ret.warnings) = 1
    /\ Ret.errors = <<>>

\* C15: a "set to minimum" warning for a dimension occurs only together with
\* the below-minimum error for the same dimension; so a validation without
\* errors clamps nothing and moves each dimension by at most 8.
C15_ClampOnlyWithBelowMinError ==
    Validated =>
        /\ WarningsOfKind("WidthSetToMin") # <<>> =>
                ErrorsOfKind("WidthBelowMin") # <<>>
        /\ WarningsOfKind("HeightSetToMin") # <<>> =>
                ErrorsOfKind("HeightBelowMin") # <<>>
        /\ Ret.errors = <<>> =>
                /\ WarningsOfKind("WidthSetToMin") = <<>>
                /\ WarningsOfKind("HeightSetToMin") = <<>>
                /\ Distance(Ret.adjusted_width, ReqW) <= 8
                /\ Distance(Ret.adjusted_height, ReqH) <= 8

\* 40 rounds to 32 and is clamped, with its error; 71 only moves to 64
C15_Witness ==
    /\ Validated
    /\ vd_args = <<40, 71>>
    /\ WarningsOfKind("WidthSetToMin") # <<>>
    /\ ErrorsOfKind("WidthBelowMin") # <<>>
    /\ WarningsOfKind("HeightSetToMin") = <<>>
    /\ Ret.adjusted_height = 64

\* C16: a value halfway between two multiples of 16 (v mod 16 = 8) is
\* rounded to the neighbour 16*q with q even, not always upwards: 72 gives
\* 64 and 88 gives 96.
HalfwayToEven(req, adjustKind) ==
    req % 16 = 8 =>
        LET to == WarningsOfKind(adjustKind)[1].b
        IN  /\ to % 32 = 0
            /\ Distance(to, req) = 8

C16_TiesRoundToEvenMultiple ==
    Validated =>
        /\ HalfwayToEven(ReqW, "WidthAdjusted")
        /\ HalfwayToEven(ReqH, "HeightAdjusted")
        /\ ReqW = 72 => Ret.adjusted_width = 64
        /\ ReqH = 88 => Ret.adjusted_height = 96

C16_Witness ==
    /\ Validated
    /\ vd_args = <<72, 88>>
    /\ Ret.adjusted_width = 64
    /\ Ret.adjusted_height = 96

(***************************************************************************)
(* The metadata sidecar (under Spec)                                       *)
(***************************************************************************)
\* C14: the sidecar is written at most once, only after the image file was
\* written by a successful download, only when SAVE_PROMPT_JSON and
\* USE_STRUCTURED_PROMPT are both on, and the compiled prompt in it is the
\* prompt of the submit payload; a run that ends in a fatal condition writes
\* no sidecar.
C14_SidecarOnceAfterImage ==
    /\ Cardinality(SidecarFiles) <= 1
    /\ \A i \in SidecarFiles :
            /\ i = 2
            /\ files[1].suffix = OUTPUT_FORMAT
            /\ files[1].stem = files[i].stem
            /\ Len(downloaded) = 1
            /\ Ok200(downloaded[1].response)
            /\ cfg.SAVE_PROMPT_JSON
            /\ cfg.USE_STRUCTURED_PROMPT
            /\ Len(submitted) = 1
            /\ files[i].data.generated_prompt = submitted[1].payload.prompt
            /\ pc = "done"
    /\ exit_status = <<1>> => SidecarFiles = {}
    /\ (pc = "done" /\ cfg.SAVE_PROMPT_JSON /\ cfg.USE_STRUCTURED_PROMPT) =>
            SidecarFiles = {2}

C14_Witness ==
    /\ pc = "done"
    /\ SidecarFiles = {2}
    /\ ImageFiles = {1}
    /\ files[2].data.generated_prompt = submitted[1].payload.prompt
    /\ files[2].data.generated_prompt # <<>>

(***************************************************************************)
(* Properties of the prompt compiler (checked under SpecPrompt)            *)
(***************************************************************************)
Compiled == bp_ret # <<>>

\* the pieces of a string between its blank-line tokens
RECURSIVE SplitOnBlankLine(_, _)
SplitOnBlankLine(str, piece) ==
    IF str = <<>> THEN <<piece>>
    ELSE IF Head(str) = "\n\n"
         THEN <<piece>> \o SplitOnBlankLine(Tail(str), <<>>)
         ELSE SplitOnBlankLine(Tail(str), Append(piece, Head(str)))
SectionsOf(str) == IF str = <<>> THEN <<>> ELSE SplitOnBlankLine(str, <<>>)

HasText(d, k) == k \in DOMAIN d /\ d[k] # <<>>
SomeEntryHasKey(d, k, keys) ==
    /\ k \in DOMAIN d
    /\ \E i \in DOMAIN d[k] : DOMAIN d[k][i] \cap keys # {}

\* per section, in the fixed order: whether it is due, and how it starts
SectionPlan(d) ==
    <<[due |-> HasText(d, "scene"), starts |-> {"Scene: "}],
      [due |-> SomeEntryHasKey(d, "subjects",
                    {"description", "position", "action"}),
       starts |-> {"Subject "}],
      [due |-> HasText(d, "style"), starts |-> {"Style: "}],
      [due |-> HasText(d, "color_palette"), starts |-> {"Color palette: "}],
      [due |-> HasText(d, "lighting"), starts |-> {"Lighting: "}],
      [due |-> HasText(d, "mood"), starts |-> {"Mood and atmosphere: "}],
      [due |-> HasText(d, "background"), starts |-> {"Background: "}],
      [due |-> HasText(d, "composition"), starts |-> {"Composition: "}],
      [due |-> "camera" \in DOMAIN d
                /\ DOMAIN d["camera"]
                        \cap {"angle", "lens", "depth_of_field"} # {},
       starts |-> {"Camera angle: ", "Lens: ", "Depth of field: "}],
      [due |-> SomeEntryHasKey(d, "text_elements",
                    {"content", "style", "position", "color"}),
       starts |-> {"Text elements: "}]>>
DueSections(d) == SelectSeq(SectionPlan(d), LAMBDA sec : sec.due)

\* C12: the sections come in the order scene, subjects, style, color palette,
\* lighting, mood, background, composition, camera, text elements, joined by
\* blank lines; a section is there exactly when its field is present and
\* non-empty (for subjects, camera and text elements: when an entry or
\* fragment renders); with every field absent the result is the empty string.
C12_SectionsInFixedOrder ==
    Compiled =>
        LET sections == SectionsOf(bp_ret[1])
            due == DueSections(bp_arg)
        IN  /\ Len(sections) = Len(due)
            /\ \A i \in 1 .. Len(sections) :
                    /\ i <= Len(due)
                    /\ sections[i] # <<>>
                    /\ sections[i][1] \in due[i].starts
            /\ DOMAIN bp_arg = {} => bp_ret[1] = <<>>

\* all ten sections at once
C12_Witness ==
    /\ Compiled
    /\ DOMAIN bp_arg = PromptKeys
    /\ Len(SectionsOf(bp_ret[1])) = 10
    /\ SectionsOf(bp_ret[1])[2] =
            <<"Subject ", "1", ": ", "a cat", ", ", "positioned ", "left",
              ", ", "sleeping">>
    /\ SectionsOf(bp_ret[1])[4] =
            <<"Color palette: ", "#", "f", "f", "0", "0", "0", "0", " (",
              "bright red/coral", ")", ", ", "z", "z", " (", "z", "z", ")">>
    /\ SectionsOf(bp_ret[1])[9] =
            <<"Camera angle: ", "eye level", " | ", "Lens: ", "50mm", " | ",
              "Depth of field: ", "shallow">>
    /\ SectionsOf(bp_ret[1])[10] =
            <<"Text elements: ", "Text reading \"", "OPEN", "\"", " ", "in ",
              "bold", " ", "located ", "top", " ", "in ", "white/cream",
              " color">>

====
